---------------------------- MODULE Spec2Model ----------------------------
(***************************************************************************)
(* Model of the model-selection pipeline of modctl's contrib scripts:      *)
(*   src/contrib/scripts/select-top-models.py  (evaluator and selector)    *)
(*   src/scripts/validate_workflow.py          (offline validator)         *)
(*                                                                         *)
(* Python strings are TLA+ strings (TLC evaluates Len, SubSeq and \o on    *)
(* them).  A Python object whose attributes may be missing is a function   *)
(* whose DOMAIN is the set of attributes it has (hasattr is membership in  *)
(* DOMAIN).  A value whose Python type matters is tagged: PyNone,          *)
(* PyInt(n), PyStr(s), PyNum(h).                                           *)
(*                                                                         *)
(* File sizes are counted in units of 2^20 bytes, so that a size in GB is  *)
(* units / 1024, an exact binary fraction (as it is in a Python float).    *)
(* A float number of GB is carried as its number of 1/1024 GB; a value     *)
(* rounded to two decimals is carried as its number of hundredths.         *)
(***************************************************************************)
EXTENDS Integers, Sequences, FiniteSets, TLC

VARIABLES
    \* ---- select_top_models (one process run of the selector) ----
    limit,          \* argument limit
    max_size_gb,    \* argument max_size_gb, in 1/1024 GB
    hash_order,     \* iteration order of the set KNOWN_FAMILIES in this process
    models,         \* the candidate stream returned by api.list_models
    pc,             \* position of the selector in its code
    selected,       \* local list `selected`
    checked,        \* local counter `checked`
    model_info,     \* outcome of the api.model_info call in flight
    lookups,        \* ids for which api.model_info was called, in call order
    returns,        \* pairs returned by is_compatible_model, in call order
    skipped,        \* the "Skipping <id>: <reason>" reasons printed to stderr
    \* ---- calls of the pure helpers, one per specification ----
    call,           \* arguments of the helper call
    ret,            \* its return value(s), NotRun before the call
    \* ---- validate_workflow.main ----
    vpc,            \* position of the validator in main
    vmodels,        \* the list parsed from the selector's output
    vi,             \* validate_models_json: index of the descriptor (0-based)
    vf,             \* validate_models_json: number of fields examined of it
    examined,       \* <<descriptor index, field>> pairs tested, in order
    warned,         \* pairs flagged as the soft "unknown" warning
    total_size,     \* storage estimate, in hundredths of a GB
    exit_status     \* the validator's exit status, NotRun while running

selVars == <<limit, max_size_gb, hash_order, models, pc, selected, checked,
             model_info, lookups, returns, skipped>>
fnVars  == <<call, ret>>
valVars == <<vpc, vmodels, vi, vf, examined, warned, total_size, exit_status>>
vars    == <<selVars, fnVars, valVars>>

-----------------------------------------------------------------------------
(* Bounds of the model *)

MaxLimit  == 2      \* limit ranges over 1..MaxLimit
MaxStream == 3      \* the candidate stream holds at most MaxStream candidates
MaxFiles  == 2      \* a file listing holds at most MaxFiles entries
MaxIdLen  == 3      \* generated identifiers hold at most MaxIdLen characters
MaxModels == 2      \* the validator's input holds at most MaxModels descriptors

-----------------------------------------------------------------------------
(* Python values *)

PyNone    == [t |-> "None"]
PyInt(n)  == [t |-> "int", v |-> n]
PyStr(s)  == [t |-> "str", v |-> s]
PyNum(h)  == [t |-> "num", v |-> h]     \* a float, in hundredths
PyGb(u)   == [t |-> "gb", v |-> u]      \* a float number of GB, in 1/1024 GB
PyBool(b) == [t |-> "bool", v |-> b]

\* bool(v) for the tagged values
Truthy(v) ==
    CASE v.t = "None" -> FALSE
      [] v.t = "int"  -> v.v # 0
      [] v.t = "num"  -> v.v # 0
      [] v.t = "gb"   -> v.v # 0
      [] v.t = "bool" -> v.v
      [] v.t = "str"  -> v.v # ""

Raised == [t |-> "raised"]      \* an exception leaving a call
NotRun == [t |-> "not run"]

-----------------------------------------------------------------------------
(* Python string methods *)

Ch(s, i) == SubSeq(s, i, i)

UpperAlpha == "ABCDEFGHIJKLMNOPQRSTUVWXYZ"
LowerAlpha == "abcdefghijklmnopqrstuvwxyz"
Digits     == {"0", "1", "2", "3", "4", "5", "6", "7", "8", "9"}

LowerCh(c) ==
    IF \E i \in 1..Len(UpperAlpha) : Ch(UpperAlpha, i) = c
    THEN Ch(LowerAlpha, CHOOSE i \in 1..Len(UpperAlpha) : Ch(UpperAlpha, i) = c)
    ELSE c

UpperCh(c) ==
    IF \E i \in 1..Len(LowerAlpha) : Ch(LowerAlpha, i) = c
    THEN Ch(UpperAlpha, CHOOSE i \in 1..Len(LowerAlpha) : Ch(LowerAlpha, i) = c)
    ELSE c

\* The characters of s from position i on, each mapped by LowerCh.
RECURSIVE LowerFrom(_, _)
LowerFrom(s, i) ==
    IF i > Len(s) THEN "" ELSE LowerCh(Ch(s, i)) \o LowerFrom(s, i + 1)

\* str.lower()
Lower(s) == LowerFrom(s, 1)

\* The characters of s from position i on, each mapped by UpperCh.
RECURSIVE UpperFrom(_, _)
UpperFrom(s, i) ==
    IF i > Len(s) THEN "" ELSE UpperCh(Ch(s, i)) \o UpperFrom(s, i + 1)

\* str.upper()
Upper(s) == UpperFrom(s, 1)

\* s.endswith(suffix)
EndsWith(s, suffix) ==
    /\ Len(suffix) <= Len(s)
    /\ SubSeq(s, Len(s) - Len(suffix) + 1, Len(s)) = suffix

\* sub in s
Contains(s, sub) ==
    \E i \in 1..(Len(s) - Len(sub) + 1) : SubSeq(s, i, i + Len(sub) - 1) = sub


-----------------------------------------------------------------------------
(* Program constants of select-top-models.py *)

SUPPORTED_FORMATS == {"safetensors", "gguf", "bin", "pt", "pth", "onnx"}

\* The set literal, in the order it is written in the source.
KnownFamiliesListed ==
    <<"llama", "qwen", "qwen2", "qwen3", "mistral", "phi", "gpt2", "gpt_neo",
      "gpt_neox", "bloom", "opt", "falcon", "mpt", "stablelm">>

KNOWN_FAMILIES == {KnownFamiliesListed[i] : i \in DOMAIN KnownFamiliesListed}

UnitsPerGB == 1024      \* 1024 ** 3 bytes, in units of 2^20 bytes

-----------------------------------------------------------------------------
(* Attribute access on duck-typed objects *)

HasAttr(obj, name) == name \in DOMAIN obj

\* hasattr(model_info, 'siblings') and model_info.siblings
HasSiblings(info) == HasAttr(info, "siblings") /\ info.siblings # <<>>

-----------------------------------------------------------------------------
(* has_config_json *)

\* any(f.rfilename == "config.json" for f in siblings), evaluated from entry
\* i on: True at the first hit, AttributeError at an entry with no rfilename.
RECURSIVE AnyConfigJson(_, _)
AnyConfigJson(files, i) ==
    IF i > Len(files) THEN PyBool(FALSE)
    ELSE IF ~HasAttr(files[i], "rfilename") THEN Raised
    ELSE IF files[i].rfilename = "config.json" THEN PyBool(TRUE)
    ELSE AnyConfigJson(files, i + 1)

has_config_json(info) ==
    LET r == IF HasSiblings(info) THEN AnyConfigJson(info.siblings, 1)
             ELSE PyBool(FALSE)
    IN  IF r = Raised THEN PyNone ELSE r

-----------------------------------------------------------------------------
(* get_model_format *)

\* The if/elif chain applied to one lower-cased file name; "" when no branch
\* is taken.
FormatOfFile(filename) ==
    IF EndsWith(filename, ".safetensors") THEN "safetensors"
    ELSE IF EndsWith(filename, ".gguf") THEN "gguf"
    ELSE IF EndsWith(filename, ".onnx") THEN "onnx"
    ELSE IF EndsWith(filename, ".bin") /\ Contains(filename, "pytorch_model")
         THEN "bin"
    ELSE IF EndsWith(filename, ".pt") \/ EndsWith(filename, ".pth") THEN "pt"
    ELSE ""

\* The for loop over model_info.siblings from entry i on: the first file the
\* chain classifies decides.
RECURSIVE FormatScan(_, _)
FormatScan(files, i) ==
    IF i > Len(files) THEN PyNone
    ELSE IF ~HasAttr(files[i], "rfilename") THEN Raised
    ELSE LET f == FormatOfFile(Lower(files[i].rfilename))
         IN  IF f # "" THEN PyStr(f) ELSE FormatScan(files, i + 1)

get_model_format(info) ==
    LET r == IF ~HasSiblings(info) THEN PyNone ELSE FormatScan(info.siblings, 1)
    IN  IF r = Raised THEN PyNone ELSE r

-----------------------------------------------------------------------------
(* get_model_size_gb *)

\* total_size after the loop over the entries from i on; Raised when a truthy
\* size is not a number (total_size += file.size raises TypeError).
RECURSIVE TotalSize(_, _, _)
TotalSize(files, i, acc) ==
    IF i > Len(files) THEN PyInt(acc)
    ELSE IF HasAttr(files[i], "size") /\ Truthy(files[i].size)
         THEN IF files[i].size.t = "int"
              THEN TotalSize(files, i + 1, acc + files[i].size.v)
              ELSE Raised
         ELSE TotalSize(files, i + 1, acc)

get_model_size_gb(info) ==
    LET r == IF HasSiblings(info) THEN TotalSize(info.siblings, 1, 0)
             ELSE PyInt(0)
    IN  IF r = Raised THEN PyNone ELSE PyGb(r.v)

\* round(size_gb, 2), in hundredths, of a size of u/1024 GB: the float is exact,
\* so a tie is a real tie and goes to the even neighbour.
Round2(u) ==
    LET q == (u * 100) \div UnitsPerGB
        r == (u * 100) % UnitsPerGB
    IN  IF 2 * r > UnitsPerGB THEN q + 1
        ELSE IF 2 * r < UnitsPerGB THEN q
        ELSE IF q % 2 = 0 THEN q ELSE q + 1

-----------------------------------------------------------------------------
(* extract_param_size *)

IsDigits(s) == \A i \in 1..Len(s) : Ch(s, i) \in Digits

\* The ways  \d+ \.? \d*  followed by one character of `terms` matches s from
\* position i: <<k, d, m>> is k digits, d dots, m digits.
Parses(s, i, terms) ==
    IF Ch(s, i) \notin Digits THEN {}
    ELSE { p \in (1..(Len(s) - i)) \X {0, 1} \X (0..(Len(s) - i)) :
            LET k == p[1]
                d == p[2]
                m == p[3]
            IN  /\ i + k + d + m <= Len(s)
                /\ IsDigits(SubSeq(s, i, i + k - 1))
                /\ d = 1 => Ch(s, i + k) = "."
                /\ IsDigits(SubSeq(s, i + k + d, i + k + d + m - 1))
                /\ Ch(s, i + k + d + m) \in terms }

\* The parse the regex engine finds first: every quantifier is greedy.
Preferred(p, q) ==
    \/ p[1] > q[1]
    \/ p[1] = q[1] /\ p[2] > q[2]
    \/ p[1] = q[1] /\ p[2] = q[2] /\ p[3] >= q[3]

\* re.search: the match at the leftmost position that has one; the matched
\* number is s[start .. stop]. start = 0 when there is no match.
ReSearch(s, terms) ==
    IF \E i \in 1..Len(s) : Parses(s, i, terms) # {}
    THEN LET i == CHOOSE j \in 1..Len(s) :
                    /\ Parses(s, j, terms) # {}
                    /\ \A h \in 1..(j - 1) : Parses(s, h, terms) = {}
             p == CHOOSE x \in Parses(s, i, terms) :
                    \A y \in Parses(s, i, terms) : Preferred(x, y)
         IN  [start |-> i, stop |-> i + p[1] + p[2] + p[3] - 1]
    ELSE [start |-> 0, stop |-> 0]

\* The value returned for a match.group(1) of `group`.
NormalizeSize(group) ==
    LET size == Upper(group)
    IN  IF ~EndsWith(size, "B") /\ ~EndsWith(size, "M") THEN size \o "B"
        ELSE size

extract_param_size(model_id) ==
    LET model_name == Lower(model_id)
        m1 == ReSearch(model_name, {"B", "M"})      \* r'(\d+\.?\d*[BM])'
        m2 == ReSearch(model_name, {"b"})           \* r'(\d+\.?\d*)b'
    IN  IF m1.start # 0
        THEN PyStr(NormalizeSize(SubSeq(model_name, m1.start, m1.stop + 1)))
        ELSE IF m2.start # 0
        THEN PyStr(NormalizeSize(SubSeq(model_name, m2.start, m2.stop)))
        ELSE PyNone

-----------------------------------------------------------------------------
(* detect_family *)

\* for x in xs: if x in KNOWN_FAMILIES: return x   (from entry i on)
RECURSIVE FirstKnown(_, _)
FirstKnown(xs, i) ==
    IF i > Len(xs) THEN PyNone
    ELSE IF xs[i] \in KNOWN_FAMILIES THEN PyStr(xs[i])
    ELSE FirstKnown(xs, i + 1)

\* for family in KNOWN_FAMILIES: if family in name: return family
\* `order` is the order in which this process iterates the set.
RECURSIVE FirstContained(_, _, _)
FirstContained(order, name, i) ==
    IF i > Len(order) THEN PyNone
    ELSE IF Contains(name, order[i]) THEN PyStr(order[i])
    ELSE FirstContained(order, name, i + 1)

detect_family(info, model_id, order) ==
    LET model_type ==
            IF HasAttr(info, "config") /\ DOMAIN info.config # {}
               /\ "model_type" \in DOMAIN info.config
            THEN info.config.model_type ELSE ""
        byTag ==
            IF HasAttr(info, "tags") THEN FirstKnown(info.tags, 1) ELSE PyNone
    IN  IF model_type # "" /\ model_type \in KNOWN_FAMILIES THEN PyStr(model_type)
        ELSE IF byTag # PyNone THEN byTag
        ELSE FirstContained(order, Lower(model_id), 1)


-----------------------------------------------------------------------------
(* is_compatible_model *)

\* The size check is skipped altogether.
TooLargeUnchecked(size_gb, max_size) == FALSE

\* if size_gb and size_gb > max_size_gb
TooLarge(size_gb, max_size) == Truthy(size_gb) /\ size_gb.v > max_size

Rejected(why) == [is_compatible |-> FALSE, metadata |-> PyNone, skipping |-> why]

\* `outcome` is what api.model_info(model_id, files_metadata=True) did: Raised,
\* or the model info it returned. `skipping` is the reason printed to stderr
\* ("" when the model is not skipped); it is not part of the returned pair.
is_compatible_model(outcome, model_id, max_size, order) ==
    IF outcome = Raised THEN Rejected("Could not fetch model info")
    ELSE IF ~Truthy(has_config_json(outcome)) THEN Rejected("No config.json")
    ELSE LET format_type == get_model_format(outcome)
             size_gb     == get_model_size_gb(outcome)
             family      == detect_family(outcome, model_id, order)
             param_size  == extract_param_size(model_id)
         IN  IF ~Truthy(format_type)
             THEN Rejected("No supported model format found")
             ELSE IF TooLarge(size_gb, max_size)
             THEN Rejected("Too large")
             ELSE [is_compatible |-> TRUE,
                   skipping |-> "",
                   metadata |->
                     [id         |-> model_id,
                      family     |-> IF Truthy(family) THEN family.v ELSE "unknown",
                      arch       |-> "transformer",
                      format     |-> format_type.v,
                      param_size |-> IF Truthy(param_size) THEN param_size.v
                                     ELSE "unknown",
                      size_gb    |-> IF Truthy(size_gb) THEN PyNum(Round2(size_gb.v))
                                     ELSE PyNone,
                      downloads  |-> IF HasAttr(outcome, "downloads")
                                     THEN outcome.downloads ELSE 0,
                      likes      |-> IF HasAttr(outcome, "likes")
                                     THEN outcome.likes ELSE 0]]

-----------------------------------------------------------------------------
(* Idle values of the variables a specification does not use *)

SelectorIdle ==
    /\ limit = 0 /\ max_size_gb = 0 /\ hash_order = <<>> /\ models = <<>>
    /\ pc = "idle" /\ selected = <<>> /\ checked = 0 /\ model_info = NotRun
    /\ lookups = <<>> /\ returns = <<>> /\ skipped = {}

HelperIdle == call = NotRun /\ ret = NotRun

ValidatorIdle ==
    /\ vpc = "idle" /\ vmodels = <<>> /\ vi = 0 /\ vf = 0 /\ examined = <<>>
    /\ warned = {} /\ total_size = 0 /\ exit_status = NotRun

\* The iteration orders of KNOWN_FAMILIES the model lets a process have. The
\* order of a set of str depends on the process's hash seed; the listed order
\* and its reverse iterate every two families in both relative orders.
Reverse(seq) == [i \in 1..Len(seq) |-> seq[Len(seq) + 1 - i]]

IterationOrders == {KnownFamiliesListed, Reverse(KnownFamiliesListed)}

\* All strings of at most n characters of `alphabet`.
RECURSIVE StringsUpTo(_, _)
StringsUpTo(alphabet, n) ==
    IF n = 0 THEN {""}
    ELSE LET shorter == StringsUpTo(alphabet, n - 1)
         IN  shorter \cup {s \o c : s \in shorter, c \in alphabet}

\* All sequences of at most n elements of S.
SeqsUpTo(S, n) == UNION {[1..k -> S] : k \in 0..n}

-----------------------------------------------------------------------------
(* SpecParamSize: extract_param_size applied to one identifier, and the     *)
(* param_size field is_compatible_model builds from its result.            *)

IdAlphabet == {"7", "5", ".", "b", "B", "m", "M", "-"}

NamedIds == {"Llama-7B-Instruct", "Qwen2-0.5B", "opt-350m", "phi-1.5"}

ParamSizeIds == StringsUpTo(IdAlphabet, MaxIdLen) \cup NamedIds

\* "param_size": param_size or "unknown"
ParamSizeField(param_size) ==
    IF Truthy(param_size) THEN param_size.v ELSE "unknown"

ParamSizeInit ==
    /\ call \in [model_id : ParamSizeIds]
    /\ ret = NotRun
    /\ SelectorIdle /\ ValidatorIdle

ExtractParamSize ==
    /\ ret = NotRun
    /\ ret' = [t |-> "done",
               param_size |-> ParamSizeField(extract_param_size(call.model_id))]
    /\ UNCHANGED <<call, selVars, valVars>>

SpecParamSize == ParamSizeInit /\ [][ExtractParamSize]_vars

\* The claimed extraction: the first number (digits, optional dot, digits)
\* immediately followed by b, B, m or M, upper-cased with its letter kept.
ClaimedParamSize(model_id) ==
    LET m == ReSearch(model_id, {"b", "B", "m", "M"})
    IN  IF m.start # 0 THEN Upper(SubSeq(model_id, m.start, m.stop + 1))
        ELSE "unknown"

\* C6: parameter-size extraction returns the first numeric value followed by B
\* or M in either case, upper-cased with its own letter kept ("opt-350m" gives
\* "350M"), and "unknown" when no digits are followed by B or M.
ParamSizeAsClaimed ==
    ret # NotRun => ret.param_size = ClaimedParamSize(call.model_id)

-----------------------------------------------------------------------------
(* SpecFormat: get_model_format applied to one file listing.               *)

NoAttrs == [a \in {} |-> PyNone]       \* an object with none of the attributes

FormatFileNames ==
    {"config.json", "model.safetensors", "pytorch_model.bin", "model.gguf",
     "model.onnx", "weights.pth", "model.pt", "adapter_model.bin", "README.md"}

\* The listing entries: named files, and an entry with no rfilename.
FormatFiles == {[rfilename |-> n] : n \in FormatFileNames} \cup {[size |-> PyInt(1)]}

FormatInfos ==
    {[siblings |-> l] : l \in SeqsUpTo(FormatFiles, MaxFiles)} \cup {NoAttrs}

FormatInit ==
    /\ call \in [model_info : FormatInfos]
    /\ ret = NotRun
    /\ SelectorIdle /\ ValidatorIdle

GetModelFormat ==
    /\ ret = NotRun
    /\ ret' = [t |-> "done", format |-> get_model_format(call.model_info)]
    /\ UNCHANGED <<call, selVars, valVars>>

SpecFormat == FormatInit /\ [][GetModelFormat]_vars

\* The claimed priority: safetensors > gguf > onnx > bin > pt.
FormatPriority == <<"safetensors", "gguf", "onnx", "bin", "pt">>

\* The formats of the files of a listing whose entries all have a name.
FormatsPresent(files) ==
    {FormatOfFile(Lower(files[i].rfilename)) : i \in DOMAIN files} \ {""}

\* The highest-priority format present, None when there is none.
ClaimedFormat(files) ==
    IF FormatsPresent(files) = {} THEN PyNone
    ELSE PyStr(FormatPriority[
            CHOOSE i \in DOMAIN FormatPriority :
                /\ FormatPriority[i] \in FormatsPresent(files)
                /\ \A j \in 1..(i - 1) : FormatPriority[j] \notin FormatsPresent(files)])

AllNamed(files) == \A i \in DOMAIN files : HasAttr(files[i], "rfilename")

\* C4: format detection returns the highest-priority format present among all
\* listed files, whatever the order of the listing (a listing with both a
\* .safetensors and a pytorch_model .bin file resolves to "safetensors").
FormatByPriority ==
    (/\ ret # NotRun
     /\ HasSiblings(call.model_info)
     /\ AllNamed(call.model_info.siblings))
        => ret.format = ClaimedFormat(call.model_info.siblings)

-----------------------------------------------------------------------------
(* SpecFamily: detect_family applied to the same arguments in two          *)
(* executions of the script, each process with its own iteration order.    *)

FamilyConfigs == {[model_type |-> "llama"], [model_type |-> "bert"], NoAttrs}

FamilyTags == {<<"pytorch", "qwen2">>, <<"text-generation">>}

FamilyInfos ==
    {[config |-> c, tags |-> t] : c \in FamilyConfigs, t \in FamilyTags}
        \cup {[config |-> c] : c \in FamilyConfigs}
        \cup {[tags |-> t] : t \in FamilyTags}
        \cup {NoAttrs}

FamilyIds ==
    {"Qwen/Qwen2-0.5B", "EleutherAI/gpt_neox-20b", "meta-llama/Llama-7B", "bert-base"}

Executions == {1, 2}

FamilyInit ==
    /\ call \in [model_info : FamilyInfos, model_id : FamilyIds,
                 order : [Executions -> IterationOrders]]
    /\ ret = [e \in Executions |-> NotRun]
    /\ SelectorIdle /\ ValidatorIdle

DetectFamily(e) ==
    /\ ret[e] = NotRun
    /\ ret' = [ret EXCEPT ![e] =
                   detect_family(call.model_info, call.model_id, call.order[e])]
    /\ UNCHANGED <<call, selVars, valVars>>

FamilyNext == \E e \in Executions : DetectFamily(e)

SpecFamily == FamilyInit /\ [][FamilyNext]_vars

\* C5: family detection is deterministic: two executions on the same
\* configuration, tags and identifier return the same family.
FamilyDeterministic ==
    (\A e \in Executions : ret[e] # NotRun) => ret[1] = ret[2]

-----------------------------------------------------------------------------
(* Spec: one run of select_top_models against a hub.                       *)

FetchMultiplier == 10       \* fetch_limit = limit * 10

ModelIds ==
    {"Qwen/Qwen2-0.5B", "facebook/opt-350m", "microsoft/phi-1.5", "org/Llama-7B"}

\* Size ceilings, in 1/1024 GB: 129/1024 GB and 2 GB.
Ceilings == {129, 2048}

\* Entries of the file listings the hub returns.
ConfigJson      == [rfilename |-> "config.json", size |-> PyInt(1)]
SafetensorsFile == [rfilename |-> "model.safetensors", size |-> PyInt(128)]
LargeBinFile    == [rfilename |-> "pytorch_model.bin", size |-> PyInt(3000)]
UnsizedPthFile  == [rfilename |-> "weights.pth", size |-> PyNone]
BadSizeFile     == [rfilename |-> "model.gguf", size |-> PyStr("n/a")]
UnnamedEntry    == [size |-> PyInt(5)]

HubFiles ==
    {ConfigJson, SafetensorsFile, LargeBinFile, UnsizedPthFile, BadSizeFile,
     UnnamedEntry}

\* The attributes other than siblings a model info comes with.
PlainProfile  == NoAttrs
TaggedProfile ==
    [config |-> [model_type |-> "llama"], tags |-> <<"pytorch", "qwen2">>,
     downloads |-> 7, likes |-> 3]

HubProfiles == {PlainProfile, TaggedProfile}

WithSiblings(profile, files) ==
    [a \in DOMAIN profile \cup {"siblings"} |->
        IF a = "siblings" THEN files ELSE profile[a]]

\* What api.model_info returns in a run of the selector: one model info for
\* each way through is_compatible_model.
HubInfos ==
    {NoAttrs,                                                   \* no siblings
     WithSiblings(PlainProfile, <<SafetensorsFile>>),           \* no config.json
     WithSiblings(TaggedProfile, <<UnnamedEntry, ConfigJson>>), \* has_config_json raises
     WithSiblings(PlainProfile, <<ConfigJson>>),                \* no format
     WithSiblings(TaggedProfile, <<ConfigJson, UnnamedEntry>>), \* get_model_format raises
     WithSiblings(PlainProfile, <<ConfigJson, LargeBinFile>>),  \* too large
     WithSiblings(TaggedProfile, <<ConfigJson, SafetensorsFile>>),
     WithSiblings(PlainProfile, <<UnsizedPthFile, ConfigJson>>),
     WithSiblings(PlainProfile, <<ConfigJson, BadSizeFile>>)}   \* get_model_size_gb raises

\* The ranked candidate streams: each repository once, at most fetch_limit.
Streams(fetch_limit) ==
    {m \in SeqsUpTo(ModelIds, MaxStream) :
        /\ Len(m) <= fetch_limit
        /\ \A i, j \in DOMAIN m : i # j => m[i] # m[j]}

Init ==
    /\ limit \in 1..MaxLimit
    /\ max_size_gb \in Ceilings
    /\ hash_order \in IterationOrders
    /\ models = <<>>
    /\ pc = "start"
    /\ selected = <<>>
    /\ checked = 0
    /\ model_info = NotRun
    /\ lookups = <<>>
    /\ returns = <<>>
    /\ skipped = {}
    /\ HelperIdle /\ ValidatorIdle

\* models = api.list_models(..., limit=fetch_limit); selected = []; checked = 0
ListModels ==
    /\ pc = "start"
    /\ \E m \in Streams(limit * FetchMultiplier) : models' = m
    /\ selected' = <<>>
    /\ checked' = 0
    /\ pc' = "for"
    /\ UNCHANGED <<limit, max_size_gb, hash_order, model_info, lookups, returns, skipped,
                   fnVars, valVars>>

\* The candidate stream cannot be obtained: the exception leaves
\* select_top_models.
ListModelsRaises ==
    /\ pc = "start"
    /\ pc' = "raised"
    /\ UNCHANGED <<limit, max_size_gb, hash_order, models, selected, checked,
                   model_info, lookups, returns, skipped, fnVars, valVars>>

\* for model in models: checked += 1
NextModel ==
    /\ pc = "for"
    /\ checked < Len(models)
    /\ checked' = checked + 1
    /\ pc' = "model_info"
    /\ UNCHANGED <<limit, max_size_gb, hash_order, models, selected, model_info,
                   lookups, returns, skipped, fnVars, valVars>>

\* The stream is exhausted: return selected
StreamExhausted ==
    /\ pc = "for"
    /\ checked = Len(models)
    /\ pc' = "done"
    /\ UNCHANGED <<limit, max_size_gb, hash_order, models, selected, checked,
                   model_info, lookups, returns, skipped, fnVars, valVars>>

\* ModelInfo without the try/except around api.model_info: the exception
\* leaves is_compatible_model and select_top_models.
ModelInfoUncaught ==
    /\ pc = "model_info"
    /\ lookups' = Append(lookups, models[checked])
    /\ \E outcome \in HubInfos \cup {Raised} :
          /\ model_info' = outcome
          /\ pc' = IF outcome = Raised THEN "raised" ELSE "checks"
    /\ UNCHANGED <<limit, max_size_gb, hash_order, models, selected, checked,
                   returns, skipped, fnVars, valVars>>

\* is_compatible_model, its first statement: the call of api.model_info for
\* the current candidate, which raises or returns a model info.
ModelInfo ==
    /\ pc = "model_info"
    /\ lookups' = Append(lookups, models[checked])
    /\ \E outcome \in HubInfos \cup {Raised} : model_info' = outcome
    /\ pc' = "checks"
    /\ UNCHANGED <<limit, max_size_gb, hash_order, models, selected, checked,
                   returns, skipped, fnVars, valVars>>

\* is_compatible_model on every argument list a run of the selector can call
\* it with. Merging with the empty function makes the table explicit, so the
\* operator is evaluated once per argument list.
IsCompatibleModelOf ==
    [x \in (HubInfos \cup {Raised}) \X ModelIds \X Ceilings \X IterationOrders |->
        is_compatible_model(x[1], x[2], x[3], x[4])] @@ <<>>

\* is_compatible_model, the rest: the checks, the reason printed when the
\* model is skipped, and the returned pair.
CheckModel ==
    /\ pc = "checks"
    /\ LET r == IsCompatibleModelOf[<<model_info, models[checked], max_size_gb,
                                      hash_order>>]
       IN  /\ returns' = Append(returns, [is_compatible |-> r.is_compatible,
                                          metadata |-> r.metadata])
           /\ skipped' = IF r.skipping = "" THEN skipped
                         ELSE skipped \cup {r.skipping}
    /\ model_info' = NotRun
    /\ pc' = "if"
    /\ UNCHANGED <<limit, max_size_gb, hash_order, models, selected, checked,
                   lookups, fnVars, valVars>>

Last(seq) == seq[Len(seq)]

\* The metadata inserted so that selected stays sorted by downloads, highest
\* first.
RECURSIVE InsertByDownloads(_, _)
InsertByDownloads(list, m) ==
    IF list = <<>> THEN <<m>>
    ELSE IF m.downloads > Head(list).downloads THEN <<m>> \o list
    ELSE <<Head(list)>> \o InsertByDownloads(Tail(list), m)

\* AppendSelected with the result kept sorted by downloads.
AppendSelectedSorted ==
    /\ pc = "if"
    /\ Last(returns).is_compatible /\ Last(returns).metadata # PyNone
    /\ selected' = InsertByDownloads(selected, Last(returns).metadata)
    /\ pc' = IF Len(selected') >= limit THEN "done" ELSE "for"
    /\ UNCHANGED <<limit, max_size_gb, hash_order, models, checked, model_info,
                   lookups, returns, skipped, fnVars, valVars>>

\* AppendSelected with the break taken one candidate late (> for >=).
AppendSelectedLate ==
    /\ pc = "if"
    /\ Last(returns).is_compatible /\ Last(returns).metadata # PyNone
    /\ selected' = Append(selected, Last(returns).metadata)
    /\ pc' = IF Len(selected') > limit THEN "done" ELSE "for"
    /\ UNCHANGED <<limit, max_size_gb, hash_order, models, checked, model_info,
                   lookups, returns, skipped, fnVars, valVars>>

\* AppendSelected without the break.
AppendSelectedNoBreak ==
    /\ pc = "if"
    /\ Last(returns).is_compatible /\ Last(returns).metadata # PyNone
    /\ selected' = Append(selected, Last(returns).metadata)
    /\ pc' = "for"
    /\ UNCHANGED <<limit, max_size_gb, hash_order, models, checked, model_info,
                   lookups, returns, skipped, fnVars, valVars>>

\* if is_compatible and metadata: selected.append(metadata);
\*     if len(selected) >= limit: break    (and then return selected)
AppendSelected ==
    /\ pc = "if"
    /\ Last(returns).is_compatible /\ Last(returns).metadata # PyNone
    /\ selected' = Append(selected, Last(returns).metadata)
    /\ pc' = IF Len(selected') >= limit THEN "done" ELSE "for"
    /\ UNCHANGED <<limit, max_size_gb, hash_order, models, checked, model_info,
                   lookups, returns, skipped, fnVars, valVars>>

\* The if is not taken: on to the next candidate.
SkipModel ==
    /\ pc = "if"
    /\ ~(Last(returns).is_compatible /\ Last(returns).metadata # PyNone)
    /\ pc' = "for"
    /\ UNCHANGED <<limit, max_size_gb, hash_order, models, selected, checked,
                   model_info, lookups, returns, skipped, fnVars, valVars>>

Next ==
    \/ ListModels
    \/ ListModelsRaises
    \/ NextModel
    \/ StreamExhausted
    \/ ModelInfo
    \/ CheckModel
    \/ AppendSelected
    \/ SkipModel

Spec == Init /\ [][Next]_vars

\* The metadata of the accepted candidates among the first n returns of
\* is_compatible_model, in call order.
RECURSIVE AcceptedMetadata(_, _)
AcceptedMetadata(rets, n) ==
    IF n = 0 THEN <<>>
    ELSE IF rets[n].is_compatible
         THEN Append(AcceptedMetadata(rets, n - 1), rets[n].metadata)
         ELSE AcceptedMetadata(rets, n - 1)

\* The number of returns the if statement has already dealt with.
Handled == IF pc = "if" THEN Len(returns) - 1 ELSE Len(returns)

\* The rank of a candidate in the stream.
Rank(id) == CHOOSE k \in DOMAIN models : models[k] = id

\* C1: the result never holds more than limit descriptors, and the returned
\* list is shorter than limit only if every candidate of the stream was
\* evaluated.
LimitIsUpperBound ==
    /\ Len(selected) <= limit
    /\ (pc = "done" /\ Len(selected) < limit)
          => (checked = Len(models) /\ Len(returns) = Len(models))

\* C1 witness: the stream of two or more candidates ran out with the result
\* one short of the limit.
ShortResultReturned ==
    /\ pc = "done"
    /\ Len(models) >= 2
    /\ Len(selected) = 1
    /\ limit = 2

\* C2: the result is the accepted candidates' descriptors in stream order:
\* each once, a lower index for an earlier candidate, whatever the downloads,
\* likes or sizes.
ResultInRankOrder ==
    /\ selected = AcceptedMetadata(returns, Handled)
    /\ \A k \in DOMAIN returns :
          returns[k].is_compatible => returns[k].metadata.id = models[k]
    /\ \A i, j \in DOMAIN selected :
          i < j => /\ selected[i].id # selected[j].id
                   /\ Rank(selected[i].id) < Rank(selected[j].id)

\* C2 witness: a returned result whose second descriptor has more downloads
\* than its first, with a rejected candidate between the two.
ResultNotByDownloads ==
    /\ pc = "done"
    /\ Len(selected) = 2
    /\ selected[1].downloads < selected[2].downloads
    /\ Rank(selected[2].id) = Rank(selected[1].id) + 2

\* The three candidates were evaluated as in the end-to-end scenario: one
\* passes, and the two skipped are one without config.json and one above the
\* ceiling.
ScenarioSeen ==
    /\ Len(models) = 3
    /\ Len(returns) = 3
    /\ Cardinality({k \in 1..3 : returns[k].is_compatible}) = 1
    /\ skipped = {"No config.json", "Too large"}

\* C7: a rejected candidate, whatever the reason, leaves the result as it is
\* and the loop goes on to the next candidate; no exception leaves the
\* selection once the stream is obtained: the loop takes the next candidate
\* while there is one and returns when there is none. With limit 2 and three
\* candidates of which one lacks config.json, one is too large and one passes,
\* exactly the passing descriptor is returned.
RejectionsAbsorbed ==
    /\ [][(pc = "if" /\ ~Last(returns).is_compatible)
            => (selected' = selected /\ pc' = "for")]_vars
    /\ [](pc = "raised" => lookups = <<>>)
    /\ [][(pc = "for" /\ checked < Len(models))
            => (pc' = "model_info" /\ checked' = checked + 1)]_vars
    /\ [][(pc = "for" /\ checked = Len(models)) => pc' = "done"]_vars
    /\ []((pc = "done" /\ limit = 2 /\ ScenarioSeen)
            => /\ Len(selected) = 1
               /\ \E k \in 1..3 : returns[k].is_compatible
                                    /\ selected[1] = returns[k].metadata)

\* C7 witness: the end-to-end scenario ran to its return, the passing
\* candidate first in the stream and the two rejected ones after it.
ScenarioReturned ==
    /\ pc = "done"
    /\ limit = 2
    /\ ScenarioSeen
    /\ returns[1].is_compatible
    /\ Len(selected) = 1

\* C10: candidates are looked up in rank order, candidate k only once the
\* evaluation of candidate k-1 has returned; the acceptance that fills the
\* result ends the run with no further lookup, and otherwise the run ends only
\* when every candidate of the stream has been looked up.
OneAtATimeUntilLimit ==
    /\ Len(lookups) <= Len(models)
    /\ lookups = SubSeq(models, 1, Len(lookups))
    /\ Len(lookups) = IF pc = "model_info" THEN checked - 1 ELSE checked
    /\ Len(returns) = IF pc = "checks" THEN Len(lookups) - 1 ELSE Len(lookups)
    /\ Len(selected) >= limit
          => (pc = "done" /\ Last(returns).is_compatible)
    /\ (pc = "done" /\ Len(selected) < limit) => Len(lookups) = Len(models)

\* C10 witness: the run returned a full result with candidates of the stream
\* never looked up.
StoppedAtLimit ==
    /\ pc = "done"
    /\ Len(selected) = limit
    /\ Len(lookups) < Len(models)

-----------------------------------------------------------------------------
(* SpecCompatible: is_compatible_model applied to one outcome of the       *)
(* api.model_info call.                                                    *)

CompatInfos ==
    HubProfiles \cup
    {WithSiblings(p, l) : p \in HubProfiles, l \in SeqsUpTo(HubFiles, MaxFiles)}

CompatibleInit ==
    /\ call \in [outcome : CompatInfos \cup {Raised}, model_id : ModelIds,
                 max_size_gb : Ceilings, order : IterationOrders]
    /\ ret = NotRun
    /\ SelectorIdle /\ ValidatorIdle

IsCompatibleModel ==
    /\ ret = NotRun
    /\ ret' = is_compatible_model(call.outcome, call.model_id, call.max_size_gb,
                                  call.order)
    /\ UNCHANGED <<call, selVars, valVars>>

SpecCompatible == CompatibleInit /\ [][IsCompatibleModel]_vars

\* size_gb (hundredths) is at most the ceiling (1/1024 GB) plus 0.01.
WithinCeiling(hundredths, ceiling) ==
    UnitsPerGB * hundredths <= 100 * ceiling + UnitsPerGB

\* C3: a descriptor returned with is_compatible = True has a format of the
\* supported set, a non-empty family and param_size, and a size_gb that is
\* None or at most the ceiling (within 0.01).
DescriptorInvariants ==
    (ret # NotRun /\ ret.is_compatible) =>
        /\ ret.metadata # PyNone
        /\ {"id", "family", "arch", "format", "param_size", "size_gb"}
              \subseteq DOMAIN ret.metadata
        /\ ret.metadata.format \in SUPPORTED_FORMATS
        /\ ret.metadata.family # ""
        /\ ret.metadata.param_size # ""
        /\ \/ ret.metadata.size_gb = PyNone
           \/ WithinCeiling(ret.metadata.size_gb.v, call.max_size_gb)

\* C3 witness: an accepted descriptor whose rounded size_gb is above the
\* ceiling, within the tolerance.
AcceptedAtCeiling ==
    /\ ret # NotRun
    /\ ret.is_compatible
    /\ ret.metadata.size_gb # PyNone
    /\ UnitsPerGB * ret.metadata.size_gb.v > 100 * call.max_size_gb

-----------------------------------------------------------------------------
(* SpecValidate: one run of validate_workflow.main.                        *)

required_fields == <<"id", "family", "arch", "format", "param_size">>

\* Descriptors as the selector emits them. json.dumps and json.loads keep the
\* keys, the strings and the integers, and turn None into null and back.
EmittedDescriptors ==
    {is_compatible_model(
         WithSiblings(TaggedProfile, <<ConfigJson, SafetensorsFile>>),
         "org/Llama-7B", 2048, KnownFamiliesListed).metadata,
     is_compatible_model(
         WithSiblings(PlainProfile, <<ConfigJson, SafetensorsFile>>),
         "microsoft/phi-1.5", 2048, KnownFamiliesListed).metadata,
     is_compatible_model(
         WithSiblings(PlainProfile, <<UnsizedPthFile, ConfigJson>>),
         "bert-base", 2048, KnownFamiliesListed).metadata,
     is_compatible_model(
         WithSiblings(PlainProfile, <<ConfigJson, BadSizeFile>>),
         "facebook/opt-350m", 2048, KnownFamiliesListed).metadata}

Without(d, key) == [k \in DOMAIN d \ {key} |-> d[k]]

\* The descriptors the validator is run on: the emitted ones, and each with
\* one key left out.
ValidatorDescriptors ==
    EmittedDescriptors \cup
    {Without(d, k) : d \in EmittedDescriptors,
                     k \in {"id", "family", "arch", "format", "param_size", "size_gb"}}

ValidateInit ==
    /\ vpc = "prerequisites"
    /\ vmodels = <<>>
    /\ vi = 0
    /\ vf = 0
    /\ examined = <<>>
    /\ warned = {}
    /\ total_size = 0
    /\ exit_status = NotRun
    /\ SelectorIdle /\ HelperIdle

\* Step 1: the prerequisite probe prints what it finds and goes on.
CheckPrerequisites ==
    /\ vpc = "prerequisites"
    /\ vpc' = "select"
    /\ UNCHANGED <<vmodels, vi, vf, examined, warned, total_size, exit_status,
                   selVars, fnVars>>

\* Step 2: the selection subprocess succeeded and its output parsed.
SelectionParsed ==
    /\ vpc = "select"
    /\ \E out \in SeqsUpTo(ValidatorDescriptors, MaxModels) : vmodels' = out
    /\ vpc' = "validate"
    /\ UNCHANGED <<vi, vf, examined, warned, total_size, exit_status, selVars,
                   fnVars>>

\* Step 2: subprocess.CalledProcessError or json.JSONDecodeError: return 1
SelectionFailed ==
    /\ vpc = "select"
    /\ \E why \in {"selection failed", "invalid json"} : vpc' = why
    /\ exit_status' = PyInt(1)
    /\ UNCHANGED <<vmodels, vi, vf, examined, warned, total_size, selVars, fnVars>>

\* ExamineField with a missing field reported and skipped.
ExamineFieldSkipMissing ==
    /\ vpc = "validate"
    /\ vi < Len(vmodels)
    /\ vf < Len(required_fields)
    /\ LET model == vmodels[vi + 1]
           field == required_fields[vf + 1]
       IN  /\ examined' = Append(examined, <<vi + 1, field>>)
           /\ vf' = vf + 1
           /\ warned' = IF field \in DOMAIN model /\ model[field] = "unknown"
                           /\ field \in {"family", "param_size"}
                        THEN warned \cup {<<vi + 1, field>>} ELSE warned
           /\ UNCHANGED <<vpc, exit_status>>
    /\ UNCHANGED <<vmodels, vi, total_size, selVars, fnVars>>

\* Step 3, validate_models_json, one pass of the loop over required_fields:
\* a missing field returns False, and main returns 1.
ExamineField ==
    /\ vpc = "validate"
    /\ vi < Len(vmodels)
    /\ vf < Len(required_fields)
    /\ LET model == vmodels[vi + 1]
           field == required_fields[vf + 1]
       IN  /\ examined' = Append(examined, <<vi + 1, field>>)
           /\ IF field \notin DOMAIN model
              THEN /\ vpc' = "validation failed"
                   /\ exit_status' = PyInt(1)
                   /\ UNCHANGED <<vf, warned>>
              ELSE /\ vf' = vf + 1
                   /\ warned' = IF model[field] = "unknown"
                                   /\ field \in {"family", "param_size"}
                                THEN warned \cup {<<vi + 1, field>>} ELSE warned
                   /\ UNCHANGED <<vpc, exit_status>>
    /\ UNCHANGED <<vmodels, vi, total_size, selVars, fnVars>>

\* Step 3, validate_models_json: the size_gb line of a descriptor whose fields
\* are all present, then the next descriptor.
CheckSize ==
    /\ vpc = "validate"
    /\ vi < Len(vmodels)
    /\ vf = Len(required_fields)
    /\ vi' = vi + 1
    /\ vf' = 0
    /\ UNCHANGED <<vpc, vmodels, examined, warned, total_size, exit_status,
                   selVars, fnVars>>

\* Step 3: validate_models_json returns True.
ModelsValid ==
    /\ vpc = "validate"
    /\ vi = Len(vmodels)
    /\ vpc' = "simulate"
    /\ UNCHANGED <<vmodels, vi, vf, examined, warned, total_size, exit_status,
                   selVars, fnVars>>

\* Steps 4 and 5: the commands for the first model and the matrix lines are
\* printed; every key they read is a required field.
Simulate ==
    /\ vpc = "simulate"
    /\ vpc' = "estimate"
    /\ UNCHANGED <<vmodels, vi, vf, examined, warned, total_size, exit_status,
                   selVars, fnVars>>

\* m.get('size_gb', 0)
GetSizeGb(m) == IF "size_gb" \in DOMAIN m THEN m.size_gb ELSE PyNum(0)

\* sum(m.get('size_gb', 0) for m in models) over the descriptors from i on:
\* adding None to a number raises TypeError.
RECURSIVE SumSizes(_, _, _)
SumSizes(ms, i, acc) ==
    IF i > Len(ms) THEN PyNum(acc)
    ELSE IF GetSizeGb(ms[i]) = PyNone THEN Raised
    ELSE SumSizes(ms, i + 1, acc + GetSizeGb(ms[i]).v)

\* Step 6 and the summary: return 0
StorageEstimate ==
    /\ vpc = "estimate"
    /\ SumSizes(vmodels, 1, 0) # Raised
    /\ total_size' = SumSizes(vmodels, 1, 0).v
    /\ vpc' = "done"
    /\ exit_status' = PyInt(0)
    /\ UNCHANGED <<vmodels, vi, vf, examined, warned, selVars, fnVars>>

\* Step 6: the TypeError of sum leaves main: the interpreter prints the
\* traceback and exits with status 1.
StorageEstimateRaises ==
    /\ vpc = "estimate"
    /\ SumSizes(vmodels, 1, 0) = Raised
    /\ vpc' = "crashed"
    /\ exit_status' = PyInt(1)
    /\ UNCHANGED <<vmodels, vi, vf, examined, warned, total_size, selVars, fnVars>>

ValidateNext ==
    \/ CheckPrerequisites
    \/ SelectionParsed
    \/ SelectionFailed
    \/ ExamineField
    \/ CheckSize
    \/ ModelsValid
    \/ Simulate
    \/ StorageEstimate
    \/ StorageEstimateRaises

SpecValidate == ValidateInit /\ [][ValidateNext]_vars

\* The <<descriptor, field>> pairs in the order validate_models_json tests them.
PairIndex(i, f) == (i - 1) * Len(required_fields) + f

MissingPairs ==
    {p \in (DOMAIN vmodels) \X (DOMAIN required_fields) :
        required_fields[p[2]] \notin DOMAIN vmodels[p[1]]}

FirstMissing ==
    CHOOSE p \in MissingPairs :
        \A q \in MissingPairs : PairIndex(p[1], p[2]) <= PairIndex(q[1], q[2])

\* The pairs examined are the first Len(examined) pairs of that order.
ExaminedInOrder ==
    \A n \in DOMAIN examined :
        \E i \in DOMAIN vmodels, f \in DOMAIN required_fields :
            /\ PairIndex(i, f) = n
            /\ examined[n] = <<i, required_fields[f]>>

\* C8: schema validation fails the whole batch at the first missing required
\* field: nothing after it is examined and the exit status is 1, whatever
\* the other descriptors hold; an "unknown" family or param_size is flagged
\* and never fails the validation.
SchemaAllOrNothing ==
    /\ ExaminedInOrder
    /\ vpc = "validation failed"
          => /\ exit_status = PyInt(1)
             /\ MissingPairs # {}
             /\ Len(examined) = PairIndex(FirstMissing[1], FirstMissing[2])
    /\ vpc \in {"simulate", "estimate", "done", "crashed"}
          => /\ MissingPairs = {}
             /\ Len(examined) = Len(vmodels) * Len(required_fields)
    /\ (vpc \in {"validate", "validation failed"} /\ MissingPairs # {})
          => Len(examined) <= PairIndex(FirstMissing[1], FirstMissing[2])
    /\ \A p \in warned :
          /\ p[2] \in {"family", "param_size"}
          /\ vmodels[p[1]][p[2]] = "unknown"
    /\ exit_status = PyInt(0) => MissingPairs = {}

\* C8 witness: a batch of two failed on the param_size missing from its first
\* descriptor, whose family was only flagged; the second descriptor is
\* complete.
BatchFailedOnParamSize ==
    /\ vpc = "validation failed"
    /\ Len(vmodels) = 2
    /\ Last(examined) = <<1, "param_size">>
    /\ <<1, "family">> \in warned
    /\ \A f \in DOMAIN required_fields : required_fields[f] \in DOMAIN vmodels[2]

\* The sum of size_gb with an unknown size (null, or no key) counted as zero.
RECURSIVE ClaimedTotal(_, _)
ClaimedTotal(ms, n) ==
    IF n = 0 THEN 0
    ELSE ClaimedTotal(ms, n - 1)
            + (IF "size_gb" \in DOMAIN ms[n] /\ ms[n].size_gb # PyNone
               THEN ms[n].size_gb.v ELSE 0)

\* C9: once the selection has parsed and the schema validation has passed,
\* the validator runs to completion with status 0, its storage estimate
\* counting an unknown size_gb (null or absent) as zero.
ValidatedRunCompletes ==
    /\ vpc # "crashed"
    /\ vpc = "done"
          => /\ exit_status = PyInt(0)
             /\ total_size = ClaimedTotal(vmodels, Len(vmodels))

=============================================================================
